---- MODULE Spec2Model ----
(***************************************************************************)
(* The example scripts of the smallest-inc cookbook as state machines:     *)
(*   - createSegments of the subtitle-generation script (SpecSegments),    *)
(*   - the four HTTP scripts: getting-started, word-level outputs,         *)
(*     file-transcription, subtitle-generation (SpecHttp),                 *)
(*   - the streaming-transcription client (SpecStream).                    *)
(*   - formatTimeSrt and formatTimeVtt on their own (SpecFormat),          *)
(*   - loadAudio of the streaming client on its own (SpecLoad).            *)
(* Times are in whole milliseconds and stand for the doubles the scripts   *)
(* compute with.                                                           *)
(* An optional JavaScript value is <<>> (undefined / null) or <<v>>.       *)
(***************************************************************************)
EXTENDS Integers, Sequences, FiniteSets, TLC

VARIABLES
    \* createSegments (subtitle-generation)
    words,           \* the argument of createSegments
    pos,             \* number of words the for-of loop has consumed
    segments,        \* const segments = []
    currentSegment,  \* let currentSegment = []
    segmentStart,    \* let segmentStart = null
    groups,          \* history: the value of currentSegment at each segments.push
    segPc,           \* "loop" | "flush" | "returned"
    \* formatTimeSrt, formatTimeVtt (subtitle-generation)
    seconds,         \* the argument, in milliseconds
    srtTime,         \* <<>> or <<what formatTimeSrt returned>>
    vttTime,         \* <<>> or <<what formatTimeVtt returned>>
    \* the process running one script
    script,          \* which script runs
    hasArg,          \* process.argv[2] is given
    hasKey,          \* process.env.SMALLEST_API_KEY is set
    inputExists,     \* fs.existsSync(<the file argument>)
    pc,              \* where main() is
    exitCode,        \* <<>> while the process runs, then <<code>>
    console,         \* what was printed, in order
    \* the HTTP scripts
    requests,        \* the fetch calls issued, in order
    response,        \* <<>> or <<the outcome of the fetch>>
    written,         \* the fs.writeFileSync calls made, in order
    prCalls,         \* the arguments processResponse was called with, in order
    \* the streaming script
    audioLen,        \* audio.length: the number of samples loadAudio returned
    outputFile,      \* {filename}_responses.txt: <<>> (no file) or <<its lines>>
    connections,     \* the number of WebSockets constructed
    readyState,      \* ws.readyState, "none" before the socket is constructed
    promise,         \* the promise transcribe() returns: "none" | "pending" | "resolved" | "rejected"
    i,               \* the loop variable of the send loop
    sendPc,          \* the send loop: "idle" | "timer" (awaiting setTimeout) | "ended"
    sendCalls,       \* the ws.send calls made, in order
    timeline,        \* the send loop's calls of ws.send and setTimeout and the
                     \* expiries of its timers, in order
    messages,        \* the messages the socket delivered (message events), in order
    received,        \* the results processResponse was called with, in order
    closeCalls,      \* the number of ws.close() calls made
    errorEvents,     \* the number of error events the socket emitted
    \* loadAudio (streaming script)
    sampleRate,      \* format.sampleRate of the file
    samplesLength,   \* samples.length: the number of samples in the file
    resolved         \* <<>> or <<the samples loadAudio resolved with>>

segVars == <<words, pos, segments, currentSegment, segmentStart, groups, segPc>>
fmtVars == <<seconds, srtTime, vttTime>>
loadVars == <<sampleRate, samplesLength, resolved>>
procVars == <<script, hasArg, hasKey, inputExists, pc, exitCode, console>>
httpVars == <<requests, response, written, prCalls>>

streamVars == <<audioLen, outputFile, connections, readyState, promise, i, sendPc,
                sendCalls, timeline, messages, received, closeCalls, errorEvents>>

vars == <<segVars, procVars, httpVars, streamVars, fmtVars, loadVars>>

----------------------------------------------------------------------------
(* Bounds of the model                                                     *)

\* longest time-ordered word list given to createSegments
MaxWords == 11
\* longest word list over arbitrary (unordered, incomplete) word objects, and
\* over words whose times are not whole quarters of a second
MaxAnyLen == 2
\* the loaded audio is at most this many chunks long
MaxChunks == 2
\* the service sends at most this many responses in a session
MaxResponses == 2
\* formatTimeSrt and formatTimeVtt are given every time up to this many ms
MaxFormatMs == 1250
\* the longest of the short audio files loadAudio is given, in samples
MaxFileLen == 20

----------------------------------------------------------------------------
(* subtitle-generation: constants                                          *)

WORDS_PER_SEGMENT == 10
\* 5.0 seconds
MAX_SEGMENT_DURATION == 5000

----------------------------------------------------------------------------
(* Helpers for JavaScript values                                           *)

\* x || 0 for a number-valued field
OrZero(f) == IF f = <<>> THEN 0 ELSE f[1]

\* x || "" for a string-valued field
OrEmpty(f) == IF f = <<>> THEN "" ELSE f[1]

\* Array.prototype.join on an array of strings
RECURSIVE Join(_, _)
Join(strs, sep) ==
    IF strs = <<>> THEN ""
    ELSE IF Len(strs) = 1 THEN strs[1]
    ELSE strs[1] \o sep \o Join(Tail(strs), sep)

\* concatenation of a sequence of sequences
RECURSIVE Flatten(_)
Flatten(ss) == IF ss = <<>> THEN <<>> ELSE ss[1] \o Flatten(Tail(ss))

\* sum of a sequence of numbers
RECURSIVE Sum(_)
Sum(ns) == IF ns = <<>> THEN 0 ELSE ns[1] + Sum(Tail(ns))

\* all sequences over S of length at most n
SeqsUpTo(S, n) == UNION {[1..k -> S] : k \in 0..n}

----------------------------------------------------------------------------
(* Times as JavaScript numbers                                             *)
(*                                                                         *)
(* A time t is given in whole milliseconds; the script holds it as the     *)
(* double nearest to t / 1000 seconds (what JSON.parse returns for the     *)
(* decimal the service sent). That double is t / 1000 + e, where the error *)
(* e is a multiple of 2^-F / 1000, F being the number of binary fraction   *)
(* digits the double keeps. The operators below compute F and e exactly,   *)
(* by long division, and from them what the script's arithmetic returns.   *)

\* 2^k
RECURSIVE Pow2(_)
Pow2(k) == IF k = 0 THEN 1 ELSE 2 * Pow2(k - 1)

\* 2^k modulo 1000
RECURSIVE Pow2Mod1000(_)
Pow2Mod1000(k) == IF k = 0 THEN 1 ELSE (2 * Pow2Mod1000(k - 1)) % 1000

\* the number of binary digits of n: 0 for 0, floor(log2 n) + 1 otherwise
RECURSIVE BitLength(_)
BitLength(n) == IF n = 0 THEN 0 ELSE 1 + BitLength(n \div 2)

\* the position of the first 1 among the binary fraction digits of r / 1000
RECURSIVE FirstFractionBit(_)
FirstFractionBit(r) == IF 2 * r >= 1000 THEN 1 ELSE 1 + FirstFractionBit(2 * r)

\* F: the double nearest to t / 1000 has 53 significant binary digits
FractionBits(t) ==
    IF t \div 1000 > 0 THEN 53 - BitLength(t \div 1000)
    ELSE 52 + FirstFractionBit(t % 1000)

\* e * 1000 * 2^F: what rounding to nearest adds to t / 1000 (the digits cut
\* off are never exactly a half)
RoundingError(t) ==
    IF t % 1000 = 0 THEN 0
    ELSE LET cut == ((t % 1000) * Pow2Mod1000(FractionBits(t))) % 1000
         IN  IF cut < 500 THEN -cut ELSE 1000 - cut

\* Math.floor((seconds % 1) * 1000): seconds % 1 is exact, r / 1000 + e; the
\* product is rounded to the nearest double, which is r unless e is negative
\* and more than half the gap between r and the double below it
FloorOfMillis(t) ==
    LET r == t % 1000
        e == RoundingError(t)
        isPow2 == Pow2(BitLength(r) - 1) = r
        \* the half gap below r is 2^-F * 2^k
        k == FractionBits(t) + (BitLength(r) - 1) - 53 - (IF isPow2 THEN 1 ELSE 0)
    IN  IF e >= 0 THEN r
        ELSE IF k >= 0 /\ -e <= Pow2(k) THEN r
        ELSE r - 1

\* F for a time that is not a whole number of seconds, 0 for one that is (it is
\* held exactly)
DigitsCut(t) == IF t % 1000 = 0 THEN 0 ELSE FractionBits(t)

Max3(a, b, c) ==
    LET ab == IF a > b THEN a ELSE b
    IN  IF ab > c THEN ab ELSE c

\* to - from >= limit on doubles, for a limit in whole seconds that is not a
\* power of two: the difference of the two doubles is rounded to nearest, and
\* reaches the limit unless it is short of it by more than half the gap between
\* the limit and the double below it, which is 2^-g
DoubleDifferenceReaches(from, to, limit) ==
    IF to - from # limit THEN to - from > limit
    ELSE LET g == 54 - BitLength(limit \div 1000)
             scale == Max3(DigitsCut(to), DigitsCut(from), g)
             scaled(t) == IF t % 1000 = 0 THEN 0
                          ELSE RoundingError(t) * Pow2(scale - FractionBits(t))
         IN  scaled(to) - scaled(from) >= -(1000 * Pow2(scale - g))

----------------------------------------------------------------------------
(* createSegments                                                          *)

\* currentSegment.map((w) => w.word || "").join(" ")
SegmentText(ws) == Join([k \in 1..Len(ws) |-> OrEmpty(ws[k].word)], " ")

\* segmentDuration >= MAX_SEGMENT_DURATION, where segmentDuration is
\* segmentEnd - segmentStart
DurationReached(segmentStart0, segmentEnd) ==
    DoubleDifferenceReaches(segmentStart0, segmentEnd, MAX_SEGMENT_DURATION)

StrictlyOver(count, segmentStart0, segmentEnd) ==
    count > WORDS_PER_SEGMENT \/ segmentEnd - segmentStart0 > MAX_SEGMENT_DURATION

\* the test that closes a segment
ShouldClose(count, segmentStart0, segmentEnd) ==
    count >= WORDS_PER_SEGMENT \/ DurationReached(segmentStart0, segmentEnd)

\* the state of the loop before its first iteration
SegInit ==
    [segments |-> <<>>, currentSegment |-> <<>>, segmentStart |-> <<>>,
     groups |-> <<>>]

\* an iteration that does not reset segmentStart when it closes a segment
LoopBodyKeepsStart(st, word) ==
    LET start1 == IF st.segmentStart = <<>> THEN <<OrZero(word.start)>>
                  ELSE st.segmentStart
        cur1 == Append(st.currentSegment, word)
        segmentEnd == OrZero(word.end)
    IN  IF ShouldClose(Len(cur1), start1[1], segmentEnd)
        THEN [segments |-> Append(st.segments,
                                 [start |-> start1[1], end |-> segmentEnd,
                                  text |-> SegmentText(cur1)]),
              currentSegment |-> <<>>,
              segmentStart |-> start1,
              groups |-> Append(st.groups, cur1)]
        ELSE [st EXCEPT !.currentSegment = cur1, !.segmentStart = start1]

\* one iteration of the for-of loop
LoopBody(st, word) ==
    LET start1 == IF st.segmentStart = <<>> THEN <<OrZero(word.start)>>
                  ELSE st.segmentStart
        cur1 == Append(st.currentSegment, word)
        segmentEnd == OrZero(word.end)
    IN  IF ShouldClose(Len(cur1), start1[1], segmentEnd)
        THEN [segments |-> Append(st.segments,
                                 [start |-> start1[1], end |-> segmentEnd,
                                  text |-> SegmentText(cur1)]),
              currentSegment |-> <<>>,
              segmentStart |-> <<>>,
              groups |-> Append(st.groups, cur1)]
        ELSE [st EXCEPT !.currentSegment = cur1, !.segmentStart = start1]

NoFlush(st) == st

\* the code after the loop: the words left over become the last segment
Flush(st) ==
    IF Len(st.currentSegment) > 0
    THEN [st EXCEPT
            !.segments = Append(@,
                [start |-> st.segmentStart[1],
                 end |-> OrZero(st.currentSegment[Len(st.currentSegment)].end),
                 text |-> SegmentText(st.currentSegment)]),
            !.groups = Append(@, st.currentSegment)]
    ELSE st

RECURSIVE LoopFrom(_, _)
LoopFrom(st, ws) ==
    IF ws = <<>> THEN st ELSE LoopFrom(LoopBody(st, Head(ws)), Tail(ws))

\* the function as a whole, as processResponse calls it
createSegments(ws) == Flush(LoopFrom(SegInit, ws)).segments

\* --- inputs ---

\* a short word (a quarter of a second) and a long one (three seconds)
Durations == {250, 3000}

\* words in time order, each starting where the previous one ends
TimedWords(ds) ==
    [k \in 1..Len(ds) |->
        [start |-> <<Sum(SubSeq(ds, 1, k - 1))>>,
         end |-> <<Sum(SubSeq(ds, 1, k))>>,
         word |-> <<"w">>]]

\* word objects with fields missing, empty or out of order
AnyWord ==
    [start : {<<>>, <<0>>, <<3500>>},
     end : {<<>>, <<500>>, <<4000>>},
     word : {<<>>, <<"">>, <<"hi">>}]

\* words in time order from t0 on, each starting where the previous one ends
ShiftedWords(t0, ds) ==
    [k \in 1..Len(ds) |->
        [start |-> <<t0 + Sum(SubSeq(ds, 1, k - 1))>>,
         end |-> <<t0 + Sum(SubSeq(ds, 1, k))>>,
         word |-> <<"w">>]]

\* words of a quarter of a second and of five seconds, the first starting at
\* 0.008 s or at 3.008 s: times the service sends to the millisecond
OffGridWords ==
    {ShiftedWords(t0, ds) : t0 \in {8, 3008}, ds \in SeqsUpTo({250, 5000}, MaxAnyLen)}

InputWords ==
    {TimedWords(ds) : ds \in SeqsUpTo(Durations, MaxWords)}
        \cup SeqsUpTo(AnyWord, MaxAnyLen)
        \cup OffGridWords

\* no script is running
ProcIdle ==
    /\ script = "none"
    /\ hasArg = FALSE
    /\ hasKey = FALSE
    /\ inputExists = FALSE
    /\ pc = "none"
    /\ exitCode = <<>>
    /\ console = <<>>

HttpIdle ==
    /\ requests = <<>>
    /\ response = <<>>
    /\ written = <<>>
    /\ prCalls = <<>>

\* no streaming session
StreamIdle ==
    /\ audioLen = 0
    /\ outputFile = <<>>
    /\ connections = 0
    /\ readyState = "none"
    /\ promise = "none"
    /\ i = 0
    /\ sendPc = "idle"
    /\ sendCalls = <<>>
    /\ timeline = <<>>
    /\ messages = <<>>
    /\ received = <<>>
    /\ closeCalls = 0
    /\ errorEvents = 0

\* createSegments is not running
SegIdle ==
    /\ words = <<>>
    /\ pos = 0
    /\ segments = <<>>
    /\ currentSegment = <<>>
    /\ segmentStart = <<>>
    /\ groups = <<>>
    /\ segPc = "none"

\* the formatters are not running
FmtIdle ==
    /\ seconds = 0
    /\ srtTime = <<>>
    /\ vttTime = <<>>

\* loadAudio is not running
LoadIdle ==
    /\ sampleRate = 0
    /\ samplesLength = 0
    /\ resolved = <<>>

SegState ==
    [segments |-> segments, currentSegment |-> currentSegment,
     segmentStart |-> segmentStart, groups |-> groups]

SetSegState(st) ==
    /\ segments' = st.segments
    /\ currentSegment' = st.currentSegment
    /\ segmentStart' = st.segmentStart
    /\ groups' = st.groups

InitSegments ==
    /\ words \in InputWords
    /\ pos = 0
    /\ segments = SegInit.segments
    /\ currentSegment = SegInit.currentSegment
    /\ segmentStart = SegInit.segmentStart
    /\ groups = SegInit.groups
    /\ segPc = "loop"
    /\ FmtIdle
    /\ LoadIdle
    /\ ProcIdle
    /\ HttpIdle
    /\ StreamIdle

\* for (const word of words) { ... }
SegIterate ==
    /\ segPc = "loop"
    /\ pos < Len(words)
    /\ SetSegState(LoopBody(SegState, words[pos + 1]))
    /\ pos' = pos + 1
    /\ UNCHANGED <<words, segPc, procVars, httpVars, streamVars, fmtVars, loadVars>>

\* the loop is over
SegLoopEnd ==
    /\ segPc = "loop"
    /\ pos = Len(words)
    /\ segPc' = "flush"
    /\ UNCHANGED <<words, pos, segments, currentSegment, segmentStart, groups,
                   procVars, httpVars, streamVars, fmtVars, loadVars>>

\* if (currentSegment.length > 0) { segments.push(...) }  return segments
SegReturn ==
    /\ segPc = "flush"
    /\ SetSegState(Flush(SegState))
    /\ segPc' = "returned"
    /\ UNCHANGED <<words, pos, procVars, httpVars, streamVars, fmtVars, loadVars>>

NextSegments == SegIterate \/ SegLoopEnd \/ SegReturn

SpecSegments == InitSegments /\ [][NextSegments]_vars

----------------------------------------------------------------------------
(* The console and the process                                             *)

\* String.prototype.repeat
RECURSIVE Repeat(_, _)
Repeat(str, n) == IF n = 0 THEN "" ELSE str \o Repeat(str, n - 1)

\* String.prototype.padStart(width, "0") of a number's decimal form
PadStart(n, width) ==
    LET str == ToString(n)
    IN  IF Len(str) >= width THEN str ELSE Repeat("0", width - Len(str)) \o str

\* Number.prototype.toFixed(2) of a time in seconds (given in ms, a multiple of 10)
ToFixed2(ms) == ToString(ms \div 1000) \o "." \o PadStart((ms % 1000) \div 10, 2)

\* console.log(text)
Out(text) == [stream |-> "out", text |-> text, obj |-> <<>>]
\* console.error(text)
Err(text) == [stream |-> "err", text |-> text, obj |-> <<>>]
\* console.error(object)
ErrObj(o) == [stream |-> "err", text |-> "", obj |-> <<o>>]

\* the name of the file argument, and its name without directory and extension
InputFile == "input.wav"
BaseName == "input"

\* process.exit(code), or the end of the script (code 0)
Exit(code, lines) ==
    /\ pc' = "exited"
    /\ exitCode' = <<code>>
    /\ console' = console \o lines

\* main() is called without a handler: a rejection of its promise ends the process
\* with the error printed and exit code 1
UnhandledRejection(message) == Exit(1, <<Err("Uncaught Error: " \o message)>>)

----------------------------------------------------------------------------
(* The HTTP scripts                                                        *)

HttpScripts == {"getting-started", "word-level", "file-transcription", "subtitle"}

\* the constants of the scripts
LANGUAGE == "en"
WORD_TIMESTAMPS == "true"
DIARIZE == "true"
AGE_DETECTION == "true"
GENDER_DETECTION == "true"
EMOTION_DETECTION == "true"

\* new URLSearchParams({...}) of each script
Params(sc) ==
    CASE sc = "getting-started" -> [language |-> LANGUAGE]
      [] sc = "word-level" ->
            [language |-> LANGUAGE, word_timestamps |-> WORD_TIMESTAMPS,
             diarize |-> DIARIZE]
      [] sc = "file-transcription" ->
            [language |-> LANGUAGE, word_timestamps |-> WORD_TIMESTAMPS,
             diarize |-> DIARIZE, age_detection |-> AGE_DETECTION,
             gender_detection |-> GENDER_DETECTION,
             emotion_detection |-> EMOTION_DETECTION]
      [] sc = "subtitle" -> [language |-> LANGUAGE, word_timestamps |-> "true"]

\* what main prints between the checks and the request
Announce(sc) ==
    CASE sc = "getting-started" -> <<>>
      [] sc = "word-level" -> <<Out("Transcribing: " \o InputFile)>>
      [] sc = "file-transcription" ->
            <<Out("Reading: " \o InputFile),
              Out("Transcribing with language: " \o LANGUAGE)>>
      [] sc = "subtitle" -> <<Out("Processing: " \o InputFile)>>

\* the message main prints when the file argument is missing
Usage(sc) ==
    IF sc = "subtitle" THEN "Usage: node transcribe.js <audio_or_video_file>"
    ELSE "Usage: node transcribe.js <audio_file>"

\* main without its third check
ValidateWithoutFile(sc, arg, key, exists) ==
    IF ~arg THEN <<Out(Usage(sc))>>
    ELSE IF ~key
         THEN <<Err("Error: SMALLEST_API_KEY environment variable not set")>>
    ELSE <<>>

\* the checks main makes before it acts: <<>> when they pass, else what it prints
Validate(sc, arg, key, exists) ==
    IF ~arg THEN <<Out(Usage(sc))>>
    ELSE IF ~key
         THEN <<Err("Error: SMALLEST_API_KEY environment variable not set")>>
    ELSE IF ~exists THEN <<Err("Error: File not found: " \o InputFile)>>
    ELSE <<>>

\* --- the responses of the service ---

\* the word lists a response may carry: field absent, empty, one word, three
\* words that make two segments
ResultWords ==
    {<<>>, << <<>> >>, <<TimedWords(<<250>>)>>, <<TimedWords(<<3000, 3000, 250>>)>>}

\* the JSON bodies
Results ==
    [status : {<<>>, <<"success">>, <<"error">>},
     transcription : {<<>>, <<"hello world">>},
     words : ResultWords]

NoResult == [status |-> <<>>, transcription |-> <<>>, words |-> <<>>]

\* the HTTP status codes of the model
StatusCodes == {200, 201, 401, 500}

AnyStatusOk(status) == TRUE

\* Response.ok
Ok(status) == status >= 200 /\ status <= 299

\* the outcomes of fetch: the request fails (no response), or a response with a
\* status and a body that is JSON (result) or not (text)
Outcomes ==
    {[failed |-> TRUE, status |-> 0, json |-> FALSE, result |-> NoResult,
      text |-> "fetch failed"]}
    \cup {[failed |-> FALSE, status |-> st, json |-> FALSE, result |-> NoResult,
           text |-> "Unauthorized"] : st \in StatusCodes}
    \cup {[failed |-> FALSE, status |-> 200, json |-> TRUE, result |-> r,
           text |-> "{...}"] : r \in Results}
    \cup {[failed |-> FALSE, status |-> st, json |-> TRUE, result |-> r,
           text |-> "{...}"] :
              st \in {401, 500},
              r \in {x \in Results : x.transcription = <<>> /\ x.words = <<>>}}

\* --- subtitle-generation: formatting ---

HoursOf(ms) == ms \div 3600000
MinutesOf(ms) == (ms % 3600000) \div 60000
SecsOf(ms) == (ms % 60000) \div 1000
MillisOf(ms) == FloorOfMillis(ms)

formatTimeSrt(ms) ==
    PadStart(HoursOf(ms), 2) \o ":" \o PadStart(MinutesOf(ms), 2) \o ":"
        \o PadStart(SecsOf(ms), 2) \o "," \o PadStart(MillisOf(ms), 3)

formatTimeVtt(ms) ==
    PadStart(HoursOf(ms), 2) \o ":" \o PadStart(MinutesOf(ms), 2) \o ":"
        \o PadStart(SecsOf(ms), 2) \o "." \o PadStart(MillisOf(ms), 3)

\* --- the formatters on their own ---

\* every time up to MaxFormatMs, and times around a minute, an hour and beyond
FormatTimes ==
    0..MaxFormatMs \cup {59999, 60000, 61001, 3599999, 3600000, 3661001, 45296789}

InitFormat ==
    /\ seconds \in FormatTimes
    /\ srtTime = <<>>
    /\ vttTime = <<>>
    /\ SegIdle
    /\ ProcIdle
    /\ HttpIdle
    /\ StreamIdle
    /\ LoadIdle

\* formatTimeSrt(seconds)
FormatSrt ==
    /\ srtTime = <<>>
    /\ srtTime' = <<formatTimeSrt(seconds)>>
    /\ UNCHANGED <<seconds, vttTime, segVars, procVars, httpVars, streamVars,
                   loadVars>>

\* formatTimeVtt(seconds)
FormatVtt ==
    /\ vttTime = <<>>
    /\ vttTime' = <<formatTimeVtt(seconds)>>
    /\ UNCHANGED <<seconds, srtTime, segVars, procVars, httpVars, streamVars,
                   loadVars>>

NextFormat == FormatSrt \/ FormatVtt

SpecFormat == InitFormat /\ [][NextFormat]_vars

\* the four lines of the cue of segment number n (n = i + 1 of the forEach)
SrtCue(segs, n) ==
    <<ToString(n),
      formatTimeSrt(segs[n].start) \o " --> " \o formatTimeSrt(segs[n].end),
      segs[n].text, "">>

VttCue(segs, n) ==
    <<ToString(n),
      formatTimeVtt(segs[n].start) \o " --> " \o formatTimeVtt(segs[n].end),
      segs[n].text, "">>

generateSrt(segs) ==
    Join(Flatten([n \in 1..Len(segs) |-> SrtCue(segs, n)]), "\n")

\* generateVtt without its first two lines
VttWithoutHeader(segs) ==
    Join(Flatten([n \in 1..Len(segs) |-> VttCue(segs, n)]), "\n")

generateVtt(segs) ==
    Join(<<"WEBVTT", "">> \o Flatten([n \in 1..Len(segs) |-> VttCue(segs, n)]),
         "\n")

\* --- processResponse ---

Rule(ch) == Repeat(ch, 60)

\* fs.writeFileSync(path, text)
TextFile(path, text) == [path |-> path, text |-> text, json |-> <<>>]
\* a JSON file that holds an empty response instead of the one received
JsonFileOfNothing(path, result) == [path |-> path, text |-> "", json |-> <<NoResult>>]

\* fs.writeFileSync(path, JSON.stringify(result, null, 2))
JsonFile(path, result) == [path |-> path, text |-> "", json |-> <<result>>]

\* the lines printed for the words of a result that carries no speakers
WordLines(ws) ==
    IF Len(ws) = 0 THEN <<>>
    ELSE <<Out(""), Out(Rule("-")), Out("WORD TIMESTAMPS"), Out(Rule("-"))>>
         \o [k \in 1..Len(ws) |->
                Out("[" \o ToFixed2(OrZero(ws[k].start)) \o "s - "
                    \o ToFixed2(OrZero(ws[k].end)) \o "s] " \o OrEmpty(ws[k].word))]

\* result.words || []
WordsOf(result) == IF result.words = <<>> THEN <<>> ELSE result.words[1]

NeverNoWords(ws) == FALSE

\* if (words.length === 0)
NoWords(ws) == Len(ws) = 0

StatusIgnored(result) == FALSE

\* if (result.status !== "success")
Failed(result) == result.status # <<"success">>

\* what processResponse does with a result: the exit code, the lines printed,
\* the files written and the word lists createSegments was called with
ProcessResponse(sc, result) ==
    IF Failed(result)
    THEN [code |-> 1,
          lines |-> <<Err("Error: Transcription failed"), ErrObj(result)>>,
          files |-> <<>>, segmented |-> <<>>]
    ELSE CASE sc = "getting-started" ->
            [code |-> 0,
             lines |-> <<Out(""), Out(Rule("=")), Out("TRANSCRIPTION"),
                         Out(Rule("=")), Out(OrEmpty(result.transcription)),
                         Out(Rule("=")), Out("")>>,
             files |-> <<>>, segmented |-> <<>>]
         [] sc = "word-level" ->
            [code |-> 0,
             lines |-> <<Out(""), Out(Rule("=")), Out("TRANSCRIPTION"),
                         Out(Rule("=")), Out(OrEmpty(result.transcription))>>
                       \o WordLines(WordsOf(result))
                       \o <<Out(""), Out(Rule("=")),
                            Out("Saved: " \o BaseName \o "_result.json"),
                            Out("Done!")>>,
             files |-> <<JsonFile(BaseName \o "_result.json", result)>>,
             segmented |-> <<>>]
         [] sc = "file-transcription" ->
            [code |-> 0,
             lines |-> <<Out("\n" \o Rule("=")), Out("TRANSCRIPTION"),
                         Out(Rule("=")), Out(OrEmpty(result.transcription))>>
                       \o (IF Len(WordsOf(result)) = 0 THEN <<>>
                           ELSE <<Out("\n" \o Rule("-"))>>
                                \o Tail(Tail(WordLines(WordsOf(result)))))
                       \o <<Out("\n" \o Rule("=")),
                            Out("Saved: " \o BaseName \o "_transcript.txt"),
                            Out("Saved: " \o BaseName \o "_result.json"),
                            Out("\nDone!")>>,
             files |-> <<TextFile(BaseName \o "_transcript.txt",
                                  OrEmpty(result.transcription)),
                         JsonFile(BaseName \o "_result.json", result)>>,
             segmented |-> <<>>]
         [] sc = "subtitle" ->
            IF NoWords(WordsOf(result))
            THEN [code |-> 1,
                  lines |-> <<Err("Error: No word timestamps returned. Cannot generate subtitles.")>>,
                  files |-> <<>>, segmented |-> <<>>]
            ELSE LET segs == createSegments(WordsOf(result))
                 IN  [code |-> 0,
                      lines |-> <<Out("Transcription: "
                                      \o OrEmpty(result.transcription) \o "..."),
                                  Out("Words detected: "
                                      \o ToString(Len(WordsOf(result)))),
                                  Out("Subtitle segments: " \o ToString(Len(segs))),
                                  Out("Saved: " \o BaseName \o ".srt"),
                                  Out("Saved: " \o BaseName \o ".vtt"),
                                  Out("\nDone!")>>,
                      files |-> <<TextFile(BaseName \o ".srt", generateSrt(segs)),
                                  TextFile(BaseName \o ".vtt", generateVtt(segs))>>,
                      segmented |-> <<WordsOf(result)>>]

\* --- the run of a script ---

InitHttp ==
    /\ script \in HttpScripts
    /\ hasArg \in BOOLEAN
    /\ hasKey \in BOOLEAN
    /\ inputExists \in BOOLEAN
    /\ pc = "start"
    /\ exitCode = <<>>
    /\ console = <<>>
    /\ HttpIdle
    /\ SegIdle
    /\ FmtIdle
    /\ LoadIdle
    /\ StreamIdle

\* main() up to its await: the checks, then transcribe() up to its await of fetch
HttpMain ==
    /\ script \in HttpScripts
    /\ pc = "start"
    /\ LET refusal == Validate(script, hasArg, hasKey, inputExists)
       IN  IF refusal # <<>>
           THEN /\ Exit(1, refusal)
                /\ UNCHANGED requests
           ELSE /\ console' = console \o Announce(script)
                /\ requests' = Append(requests, Params(script))
                /\ pc' = "fetch"
                /\ UNCHANGED exitCode
    /\ UNCHANGED <<script, hasArg, hasKey, inputExists, response, written, prCalls,
                   segVars, streamVars, fmtVars, loadVars>>

RetryFetch(o) ==
    /\ requests' = Append(requests, Params(script))
    /\ UNCHANGED <<pc, exitCode, console>>

\* fetch rejects: nothing catches it, neither transcribe() nor main() nor the caller
FetchRejected(o) ==
    /\ UnhandledRejection(o.text)
    /\ UNCHANGED requests

\* the fetch promise settles: rejected (the rejection reaches main's caller), or
\* fulfilled with a response, whose body transcribe() then awaits
HttpFetchSettles ==
    /\ script \in HttpScripts
    /\ pc = "fetch"
    /\ \E o \in Outcomes :
          /\ response' = <<o>>
          /\ IF o.failed
             THEN FetchRejected(o)
             ELSE /\ pc' = "body"
                  /\ UNCHANGED <<exitCode, console, requests>>
    /\ UNCHANGED <<script, hasArg, hasKey, inputExists, written, prCalls,
                   segVars, streamVars, fmtVars, loadVars>>

\* createSegments(ws), from its call to its return
CallCreateSegments(ws) ==
    /\ words' = ws
    /\ pos' = Len(ws)
    /\ SetSegState(Flush(LoopFrom(SegInit, ws)))
    /\ segPc' = "returned"

\* the body has been read: transcribe() throws (not ok) or returns the parsed
\* result, which main hands to processResponse
HttpBodyRead ==
    /\ script \in HttpScripts
    /\ pc = "body"
    /\ LET o == response[1]
           done == ProcessResponse(script, o.result)
       IN  IF ~Ok(o.status)
           THEN /\ UnhandledRejection("API request failed with status "
                        \o ToString(o.status) \o ": " \o o.text)
                /\ UNCHANGED <<written, prCalls, segVars>>
           ELSE IF ~o.json
           THEN /\ UnhandledRejection("SyntaxError: Unexpected token")
                /\ UNCHANGED <<written, prCalls, segVars>>
           ELSE /\ prCalls' = Append(prCalls, o.result)
                /\ IF done.segmented = <<>> THEN UNCHANGED segVars
                   ELSE CallCreateSegments(done.segmented[1])
                /\ written' = written \o done.files
                /\ Exit(done.code, done.lines)
    /\ UNCHANGED <<script, hasArg, hasKey, inputExists, requests, response,
                   streamVars, fmtVars, loadVars>>

NextHttp == HttpMain \/ HttpFetchSettles \/ HttpBodyRead

SpecHttp == InitHttp /\ [][NextHttp]_vars

----------------------------------------------------------------------------
(* The streaming script                                                    *)

SAMPLE_RATE == 16000
\* const chunkDuration = 0.1, in milliseconds
chunkDurationMs == 100
\* Math.floor(chunkDuration * SAMPLE_RATE)
chunkSize == (chunkDurationMs * SAMPLE_RATE) \div 1000

Min(a, b) == IF a < b THEN a ELSE b

\* the samples of the model's audio file: the sample at index k (from 0);
\* neighbours differ, and so do samples one chunk apart
Sample(k) == ((k * 37) % 101) - 50

\* the audio lengths of the model: around each multiple of chunkSize
AudioLengths ==
    {n \in {k * chunkSize + d : k \in 0..MaxChunks, d \in {-1, 0, 1}} :
        n >= 0 /\ n <= MaxChunks * chunkSize}

\* what loadAudio returns for a file of n samples at 16 kHz
LoadedAudio == [n \in AudioLengths |-> [j \in 1..n |-> Sample(j - 1)]]

\* const audio = await loadAudio(audioFile)
Audio == LoadedAudio[audioLen]

\* the samples audio.slice copied, given the index range
SamplesOf(from, to) == SubSeq(Audio, from + 1, to)

\* audio.slice(begin, end) as the index range it copies
ShortSlice(begin, end) ==
    [type |-> "audio", from |-> Min(begin, audioLen),
     to |-> Min(end - 1, audioLen)]

Slice(begin, end) ==
    [type |-> "audio", from |-> Min(begin, audioLen), to |-> Min(end, audioLen)]

\* JSON.stringify({ type: "end" })
EndMessage == [type |-> "end", from |-> 0, to |-> 0]

\* the flags of a response: interim, final, final and last, last but not final;
\* a flag that is not set is false or absent
ResultFlags ==
    {[is_final |-> <<FALSE>>, is_last |-> <<FALSE>>],
     [is_final |-> <<TRUE>>, is_last |-> <<>>],
     [is_final |-> <<TRUE>>, is_last |-> <<TRUE>>],
     [is_final |-> <<>>, is_last |-> <<TRUE>>]}

\* the optional sections of a response: all of them, with a speaker 0 on the
\* utterance and none on the word, or none of them
AllSections ==
    [full_transcript |-> <<"a b">>,
     language |-> <<"en">>,
     languages |-> << <<"en">> >>,
     utterances |-> << <<[speaker |-> <<0>>, start |-> <<0>>, end |-> <<250>>,
                          text |-> <<"a">>]>> >>,
     words |-> << <<[word |-> <<"a">>, start |-> <<0>>, end |-> <<250>>,
                     confidence |-> <<900>>, speaker |-> <<>>]>> >>,
     redacted_entities |-> << <<"[NAME_1]">> >>]

NoSections ==
    [full_transcript |-> <<>>, language |-> <<>>, languages |-> <<>>,
     utterances |-> <<>>, words |-> <<>>, redacted_entities |-> <<>>]

\* a response: its transcript, its flags and its sections
StreamResult(t, f, sec) ==
    [transcript |-> t, is_final |-> f.is_final, is_last |-> f.is_last,
     full_transcript |-> sec.full_transcript, language |-> sec.language,
     languages |-> sec.languages, utterances |-> sec.utterances,
     words |-> sec.words, redacted_entities |-> sec.redacted_entities]

\* the responses of the service: under each combination of flags one with a
\* transcript and every section and one with neither, and an interim response
\* with another transcript
StreamResults ==
    {StreamResult(<<"a">>, f, AllSections) : f \in ResultFlags}
    \cup {StreamResult(<<>>, f, NoSections) : f \in ResultFlags}
    \cup {StreamResult(<<"b">>, [is_final |-> <<FALSE>>, is_last |-> <<FALSE>>],
                       AllSections)}

\* the truth value JavaScript gives an optional boolean field
Truthy(f) == f # <<>> /\ f[1]

\* process.stdout.write(text)
Write(text) == [stream |-> "out-raw", text |-> text, obj |-> <<>>]

\* fs.appendFileSync(outputFile, line + "\n")
AppendLine(file, line) ==
    IF file = <<>> THEN << <<line>> >> ELSE <<Append(file[1], line)>>

AppendsFinalOnly(file, result) ==
    IF OrEmpty(result.transcript) # "" /\ Truthy(result.is_final)
    THEN AppendLine(file, OrEmpty(result.transcript))
    ELSE file

\* processResponse of the streaming script: the file after it
FileAfter(file, result) ==
    IF OrEmpty(result.transcript) # ""
    THEN AppendLine(file, OrEmpty(result.transcript))
    ELSE file

PrintsAlways(result) == TRUE

\* if (result.is_final)
PrintsToConsole(result) == Truthy(result.is_final)

\* the elements of an optional array field: result.x && result.x.length > 0
ItemsOf(f) == IF f = <<>> THEN <<>> ELSE f[1]

\* JSON.stringify of an array of strings
JsonStrings(strs) ==
    "[" \o Join([k \in 1..Len(strs) |-> "\"" \o strs[k] \o "\""], ",") \o "]"

\* a section header: a rule after an empty line, the title, a rule
Header(ch, title) == <<Out("\n" \o Rule(ch)), Out(title), Out(Rule(ch))>>

\* `[${start.toFixed(2)}s - ${end.toFixed(2)}s] ` and the speaker, if any
TimedPrefix(o) ==
    "[" \o ToFixed2(OrZero(o.start)) \o "s - " \o ToFixed2(OrZero(o.end)) \o "s] "
    \o (IF o.speaker = <<>> THEN ""
        ELSE "speaker_" \o ToString(o.speaker[1]) \o ": ")

\* the sections of the end-of-session block, between the [FINAL] line and the
\* closing rule
SectionLines(result) ==
    LET utts == ItemsOf(result.utterances)
        ws == ItemsOf(result.words)
        ents == ItemsOf(result.redacted_entities)
    IN  (IF OrEmpty(result.full_transcript) # ""
         THEN Header("=", "FULL TRANSCRIPT") \o <<Out(result.full_transcript[1])>>
         ELSE <<>>)
        \o (IF OrEmpty(result.language) # ""
            THEN Header("-", "LANGUAGE")
                 \o <<Out("Detected: " \o result.language[1])>>
                 \o (IF result.languages # <<>>
                     THEN <<Out("All: " \o JsonStrings(result.languages[1]))>>
                     ELSE <<>>)
            ELSE <<>>)
        \o (IF Len(utts) > 0
            THEN Header("-", "UTTERANCES")
                 \o [k \in 1..Len(utts) |->
                        Out(TimedPrefix(utts[k]) \o OrEmpty(utts[k].text))]
            ELSE <<>>)
        \o (IF Len(ws) > 0
            THEN Header("-", "WORD TIMESTAMPS")
                 \o [k \in 1..Len(ws) |->
                        Out(TimedPrefix(ws[k]) \o OrEmpty(ws[k].word) \o " ("
                            \o ToFixed2(OrZero(ws[k].confidence)) \o ")")]
            ELSE <<>>)
        \o (IF Len(ents) > 0
            THEN Header("-", "REDACTED ENTITIES")
                 \o [k \in 1..Len(ents) |-> Out("  " \o ents[k])]
            ELSE <<>>)

\* a processResponse that prints the end-of-session block for every last
\* response, final or not
LinesOfEveryLast(result) ==
    IF Truthy(result.is_last)
    THEN <<Out("[FINAL] " \o OrEmpty(result.transcript))>>
         \o SectionLines(result) \o <<Out("\n" \o Rule("="))>>
    ELSE IF PrintsToConsole(result) THEN <<Write(OrEmpty(result.transcript))>>
    ELSE <<>>

\* processResponse of the streaming script: the lines it prints
LinesOf(result) ==
    IF PrintsToConsole(result)
    THEN IF Truthy(result.is_last)
         THEN <<Out("[FINAL] " \o OrEmpty(result.transcript))>>
              \o SectionLines(result) \o <<Out("\n" \o Rule("="))>>
         ELSE <<Write(OrEmpty(result.transcript))>>
    ELSE <<>>

OutputName == BaseName \o "_responses.txt"

InitStream ==
    /\ script = "streaming"
    /\ hasArg \in BOOLEAN
    /\ hasKey \in BOOLEAN
    /\ inputExists \in BOOLEAN
    /\ pc = "start"
    /\ exitCode = <<>>
    /\ console = <<>>
    /\ audioLen = 0
    /\ outputFile \in {<<>>, << <<"old">> >>}
    /\ connections = 0
    /\ readyState = "none"
    /\ promise = "none"
    /\ i = 0
    /\ sendPc = "idle"
    /\ sendCalls = <<>>
    /\ timeline = <<>>
    /\ messages = <<>>
    /\ received = <<>>
    /\ closeCalls = 0
    /\ errorEvents = 0
    /\ HttpIdle
    /\ SegIdle
    /\ FmtIdle
    /\ LoadIdle

KeepsFile(file) == file

\* if (fs.existsSync(outputFile)) fs.unlinkSync(outputFile)
UnlinkIfExists(file) == IF file # <<>> THEN <<>> ELSE file

\* main() up to its await: the checks, the removal of an old responses file, the
\* banner, then transcribe() up to its await of loadAudio
StreamMain ==
    /\ script = "streaming"
    /\ pc = "start"
    /\ LET refusal == Validate(script, hasArg, hasKey, inputExists)
       IN  IF refusal # <<>>
           THEN /\ Exit(1, refusal)
                /\ UNCHANGED outputFile
           ELSE /\ outputFile' = UnlinkIfExists(outputFile)
                /\ console' = console \o
                      <<Out("Streaming: " \o InputFile),
                        Out("Responses saved to: " \o OutputName),
                        Out(Rule("-"))>>
                /\ pc' = "loading"
                /\ UNCHANGED exitCode
    /\ UNCHANGED <<script, hasArg, hasKey, inputExists, audioLen, connections,
                   readyState, promise, i, sendPc, sendCalls, timeline, messages, received,
                   closeCalls, errorEvents, httpVars, segVars, fmtVars, loadVars>>

\* the catch block of main: console.error, process.exit(1)
MainCatches(message) == Exit(1, <<Err("Error: " \o message)>>)

\* loadAudio resolves: transcribe() constructs the WebSocket, registers the four
\* handlers and returns the promise, which main awaits
AudioLoaded ==
    /\ script = "streaming"
    /\ pc = "loading"
    /\ \E n \in AudioLengths : audioLen' = n
    /\ connections' = connections + 1
    /\ readyState' = "CONNECTING"
    /\ promise' = "pending"
    /\ pc' = "session"
    /\ UNCHANGED <<script, hasArg, hasKey, inputExists, exitCode, console, outputFile,
                   i, sendPc, sendCalls, timeline, messages, received, closeCalls, errorEvents,
                   httpVars, segVars, fmtVars, loadVars>>

\* loadAudio rejects (the reader's error event): transcribe() rejects, main catches
AudioLoadFails ==
    /\ script = "streaming"
    /\ pc = "loading"
    /\ MainCatches("invalid audio file")
    /\ UNCHANGED <<script, hasArg, hasKey, inputExists, streamVars, httpVars, segVars, fmtVars, loadVars>>

\* ws.send(message): the call is recorded with whether the socket was open, for a
\* socket that is closing or closed does not transmit what it is given
Send(calls, message, state) ==
    Append(calls, [type |-> message.type, from |-> message.from, to |-> message.to,
                   open |-> (state = "OPEN")])

SecondsAsDelay == chunkDurationMs \div 1000

\* chunkDuration * 1000, the delay given to setTimeout
TimerDelay == chunkDurationMs

\* the entries of the timeline
SendEvent == [ev |-> "send", ms |-> 0]
SetTimeoutEvent(delay) == [ev |-> "setTimeout", ms |-> delay]
TimeoutEvent == [ev |-> "timeout", ms |-> 0]

\* a send loop that sends the end message inside the loop, after every chunk
SendLoopEndInside(i0, state, before) ==
    /\ i' = i0
    /\ IF i0 < audioLen
       THEN /\ sendCalls' = Send(Send(sendCalls, Slice(i0, i0 + chunkSize), state),
                                 EndMessage, state)
            /\ timeline' = timeline \o before
                               \o <<SendEvent, SetTimeoutEvent(TimerDelay)>>
            /\ sendPc' = "timer"
       ELSE /\ sendCalls' = sendCalls
            /\ timeline' = timeline \o before
            /\ sendPc' = "ended"

\* the send loop from its test with loop variable i0, up to its next await or its
\* end; before are the entries the step has already added to the timeline
SendLoop(i0, state, before) ==
    /\ i' = i0
    /\ IF i0 < audioLen
       THEN /\ sendCalls' = Send(sendCalls, Slice(i0, i0 + chunkSize), state)
            /\ timeline' = timeline \o before
                               \o <<SendEvent, SetTimeoutEvent(TimerDelay)>>
            /\ sendPc' = "timer"
       ELSE /\ sendCalls' = Send(sendCalls, EndMessage, state)
            /\ timeline' = timeline \o before \o <<SendEvent>>
            /\ sendPc' = "ended"

\* the open event: the handler starts the send loop
WsOpen ==
    /\ script = "streaming"
    /\ pc = "session"
    /\ readyState = "CONNECTING"
    /\ readyState' = "OPEN"
    /\ SendLoop(0, "OPEN", <<>>)
    /\ UNCHANGED <<procVars, audioLen, outputFile, connections, promise, messages,
                   received, closeCalls, errorEvents, httpVars, segVars, fmtVars, loadVars>>

\* a send loop with backpressure: it goes on only when every chunk sent so far
\* has been answered
TimerFiresWhenAnswered ==
    /\ script = "streaming"
    /\ pc \in {"session", "done"}
    /\ sendPc = "timer"
    /\ Len(received) >= Len(sendCalls)
    /\ SendLoop(i + chunkSize, readyState, <<TimeoutEvent>>)
    /\ UNCHANGED <<procVars, audioLen, outputFile, connections, readyState, promise,
                   messages, received, closeCalls, errorEvents, httpVars, segVars, fmtVars, loadVars>>

\* the timer of the send loop expires: i += chunkSize and the loop goes on
TimerFires ==
    /\ script = "streaming"
    /\ pc \in {"session", "done"}
    /\ sendPc = "timer"
    /\ SendLoop(i + chunkSize, readyState, <<TimeoutEvent>>)
    /\ UNCHANGED <<procVars, audioLen, outputFile, connections, readyState, promise,
                   messages, received, closeCalls, errorEvents, httpVars, segVars, fmtVars, loadVars>>

\* onResponse(result), which is processResponse(result, outputFile)
OnResponse(result) ==
    /\ received' = Append(received, result)
    /\ outputFile' = FileAfter(outputFile, result)
    /\ console' = console \o LinesOf(result)

\* a message handler that never closes the socket
OnMessageNoClose(result) ==
    /\ OnResponse(result)
    /\ UNCHANGED <<closeCalls, readyState>>

\* a message handler that closes the socket on a final response
OnMessageClosesOnFinal(result) ==
    /\ OnResponse(result)
    /\ IF Truthy(result.is_final)
       THEN /\ closeCalls' = closeCalls + 1
            /\ readyState' = "CLOSING"
       ELSE UNCHANGED <<closeCalls, readyState>>

\* the message handler: JSON.parse, onResponse, and ws.close() on is_last
OnMessage(result) ==
    /\ OnResponse(result)
    /\ IF Truthy(result.is_last)
       THEN /\ closeCalls' = closeCalls + 1
            /\ readyState' = "CLOSING"
       ELSE UNCHANGED <<closeCalls, readyState>>

\* the message event, while the socket is open or, after ws.close(), still closing
WsMessage ==
    /\ script = "streaming"
    /\ pc = "session"
    /\ readyState \in {"OPEN", "CLOSING"}
    /\ Len(messages) < MaxResponses
    /\ \E result \in StreamResults :
          /\ messages' = Append(messages, result)
          /\ OnMessage(result)
    /\ UNCHANGED <<script, hasArg, hasKey, inputExists, pc, exitCode, audioLen,
                   connections, promise, i, sendPc, sendCalls, timeline, errorEvents, httpVars,
                   segVars, fmtVars, loadVars>>

\* a close handler that rejects when the socket closes before the client has
\* closed it
WsCloseUnexpectedFails ==
    /\ script = "streaming"
    /\ pc = "session"
    /\ readyState \in {"OPEN", "CLOSING"}
    /\ readyState' = "CLOSED"
    /\ IF closeCalls = 0
       THEN /\ promise' = "rejected"
            /\ MainCatches("closed")
       ELSE /\ promise' = "resolved"
            /\ console' = console \o <<Out(Rule("-")), Out("Done!")>>
            /\ pc' = "done"
            /\ UNCHANGED exitCode
    /\ UNCHANGED <<script, hasArg, hasKey, inputExists, audioLen, outputFile,
                   connections, i, sendPc, sendCalls, timeline, messages, received, closeCalls,
                   errorEvents, httpVars, segVars, fmtVars, loadVars>>

\* the close event: resolve(); main prints the rule and "Done!"
WsClose ==
    /\ script = "streaming"
    /\ pc = "session"
    /\ readyState \in {"OPEN", "CLOSING"}
    /\ readyState' = "CLOSED"
    /\ promise' = "resolved"
    /\ console' = console \o <<Out(Rule("-")), Out("Done!")>>
    /\ pc' = "done"
    /\ UNCHANGED <<script, hasArg, hasKey, inputExists, exitCode, audioLen, outputFile,
                   connections, i, sendPc, sendCalls, timeline, messages, received, closeCalls,
                   errorEvents, httpVars, segVars, fmtVars, loadVars>>

ResolveOnError(message) ==
    /\ promise' = "resolved"
    /\ console' = console \o <<Out(Rule("-")), Out("Done!")>>
    /\ pc' = "done"
    /\ UNCHANGED exitCode

\* ws.on("error", reject): a pending promise is rejected and main's catch block runs
RejectOnError(message) ==
    IF promise = "pending"
    THEN /\ promise' = "rejected"
         /\ MainCatches(message)
    ELSE UNCHANGED <<promise, pc, exitCode, console>>

\* the error event, while connecting or later; the socket then closes
WsError ==
    /\ script = "streaming"
    /\ pc = "session"
    /\ readyState \in {"CONNECTING", "OPEN", "CLOSING"}
    /\ errorEvents' = errorEvents + 1
    /\ RejectOnError("socket error")
    /\ readyState' = "CLOSING"
    /\ UNCHANGED <<script, hasArg, hasKey, inputExists, audioLen, outputFile,
                   connections, i, sendPc, sendCalls, timeline, messages, received, closeCalls,
                   httpVars, segVars, fmtVars, loadVars>>

NoTimerPending == FALSE

\* the timer of the send loop (setTimeout) is pending: it keeps the process alive
TimerPending == sendPc = "timer"

\* main has returned, the socket is closed and no timer is pending: the process ends
StreamEnds ==
    /\ script = "streaming"
    /\ pc = "done"
    /\ ~TimerPending
    /\ Exit(0, <<>>)
    /\ UNCHANGED <<script, hasArg, hasKey, inputExists, streamVars, httpVars, segVars, fmtVars, loadVars>>

NextStream ==
    \/ StreamMain
    \/ AudioLoaded
    \/ AudioLoadFails
    \/ WsOpen
    \/ TimerFires
    \/ WsMessage
    \/ WsClose
    \/ WsError
    \/ StreamEnds

SpecStream == InitStream /\ [][NextStream]_vars

\* after ws.close() the closing handshake ends and the socket emits close
CloseCompletes == readyState = "CLOSING" /\ WsClose

\* the streaming script when the event loop runs every expired timer, the closing
\* handshake ends, and the process ends once nothing is pending
SpecStreamLive ==
    /\ SpecStream
    /\ WF_vars(TimerFires)
    /\ WF_vars(CloseCompletes)
    /\ WF_vars(StreamEnds)

----------------------------------------------------------------------------
(* loadAudio of the streaming script                                       *)
(*                                                                         *)
(* ratio = format.sampleRate / SAMPLE_RATE is a double: the one nearest to *)
(* r / 16000, which is the double q nearest to r / 125, divided by 2^7.    *)
(* q is r / 125 + E / (125 * 2^F) with F the number of binary fraction     *)
(* digits q keeps. The operators below compute E and, from it, what        *)
(* Math.floor returns for the quotient and the products of the code. The   *)
(* rates of the model are at least 125 Hz.                                 *)

\* 2^k modulo 125
RECURSIVE Pow2Mod125(_)
Pow2Mod125(k) == IF k = 0 THEN 1 ELSE (2 * Pow2Mod125(k - 1)) % 125

\* the number of binary digits of the whole part of r / 125
RateBits(r) == BitLength(r \div 125)

\* E: what rounding to nearest adds to r / 125, times 125 * 2^F (the digits cut
\* off are never exactly a half)
RatioError(r) ==
    IF r % 125 = 0 THEN 0
    ELSE LET cut == ((r % 125) * Pow2Mod125(53 - RateBits(r))) % 125
         IN  IF cut <= 62 THEN -cut ELSE 125 - cut

IsPow2(n) == n > 0 /\ Pow2(BitLength(n) - 1) = n

\* Math.floor(i * ratio): the product is rounded to the nearest double; it can
\* fall below a whole number m only when i * r / 16000 is exactly m, ratio was
\* rounded down, and i times its error is more than half the gap between
\* 128 * m and the double below it
FloorOfProduct(i0, r) ==
    LET m == (i0 * r) \div 16000
        E == RatioError(r)
        M == (i0 * r) \div 125
        D == (i0 * (-E)) \div 125
        k == BitLength(M) - RateBits(r) - 1 - (IF IsPow2(M) THEN 1 ELSE 0)
    IN  IF (i0 * r) % 16000 # 0 \/ E >= 0 \/ i0 = 0 THEN m
        ELSE IF k >= 0 /\ D <= Pow2(k) THEN m
        ELSE m - 1

\* Math.floor(samples.length / ratio): the quotient is rounded to the nearest
\* double; it can fall below a whole number L only when n * 16000 / r is exactly
\* L, ratio was rounded up, and L times its relative error is more than half the
\* gap between L and the double below it
FloorOfQuotient(n, r) ==
    LET L == (n * 16000) \div r
        E == RatioError(r)
        k == 1 + RateBits(r) - BitLength(L) + (IF IsPow2(L) THEN 1 ELSE 0)
    IN  IF (n * 16000) % r # 0 \/ E <= 0 \/ n = 0 THEN L
        ELSE IF k >= 0 /\ L * E * Pow2(k) <= r THEN L
        ELSE IF k < 0 /\ L * E <= r * Pow2(-k) THEN L
        ELSE L - 1

\* samples[index] of a file of n samples; reading past the end gives undefined,
\* which an Int16Array stores as 0
SampleAt(n, index) == IF index < n THEN Sample(index) ELSE 0

\* the samples of a file of n samples
FileSamples(n) == [j \in 1..n |-> Sample(j - 1)]

\* the branch taken when format.sampleRate !== SAMPLE_RATE
Resample(n, r) ==
    LET newLength == FloorOfQuotient(n, r)
    IN  [j \in 1..newLength |-> SampleAt(n, FloorOfProduct(j - 1, r))]

\* what loadAudio resolves with for a file of n samples at r Hz
loadAudio(n, r) == IF r # SAMPLE_RATE THEN Resample(n, r) ELSE FileSamples(n)

\* the sample rates of the model: 16 kHz, half of it, three times it, and the
\* rates of CD, CD-XA and half-CD audio
FileRates == {8000, 16000, 22050, 37800, 44100, 48000}

\* the lengths of the model: short files, and files of a few hundred 16 kHz
\* samples
FileLengths == 0..MaxFileLen \cup {441, 945, 950}

InitLoad ==
    /\ sampleRate \in FileRates
    /\ samplesLength \in FileLengths
    /\ resolved = <<>>
    /\ SegIdle
    /\ FmtIdle
    /\ ProcIdle
    /\ HttpIdle
    /\ StreamIdle

\* the reader's end event: the samples are resampled if needed and the promise
\* is resolved
ReaderEnd ==
    /\ resolved = <<>>
    /\ resolved' = <<loadAudio(samplesLength, sampleRate)>>
    /\ UNCHANGED <<sampleRate, samplesLength, segVars, fmtVars, procVars, httpVars,
                   streamVars>>

NextLoad == ReaderEnd

SpecLoad == InitLoad /\ [][NextLoad]_vars

\* every script of the repository
Init == InitHttp \/ InitStream
Next == NextHttp \/ NextStream
Spec == Init /\ [][Next]_vars

----------------------------------------------------------------------------
(* Properties of createSegments                                            *)

\* C1: every segment createSegments returns holds at least 1 and at most
\* WORDS_PER_SEGMENT (10) words, for every input word list.
C1_SegmentWordCount ==
    /\ Len(segments) = Len(groups)
    /\ \A k \in 1..Len(groups) :
          Len(groups[k]) >= 1 /\ Len(groups[k]) <= WORDS_PER_SEGMENT

\* a run that returned two or more segments, one of them closed by the word count
C1_Witness ==
    /\ segPc = "returned"
    /\ Len(segments) >= 2
    /\ \E k \in 1..Len(groups) : Len(groups[k]) = WORDS_PER_SEGMENT

\* C2: every segment createSegments returns lasts at most
\* MAX_SEGMENT_DURATION (5.0 s): segment.end - segment.start <= 5.0.
C2_SegmentDuration ==
    \A k \in 1..Len(segments) :
        segments[k].end - segments[k].start <= MAX_SEGMENT_DURATION

\* the text of a list of words, built from the left
RECURSIVE SpacedText(_)
SpacedText(ws) ==
    LET n == Len(ws)
        last == IF ws[n].word = <<>> THEN "" ELSE ws[n].word[1]
    IN  IF n = 0 THEN ""
        ELSE IF n = 1 THEN last
        ELSE SpacedText(SubSeq(ws, 1, n - 1)) \o " " \o last

\* C3: createSegments groups consecutive words without loss: the words of the
\* segments, concatenated in segment order, are exactly the input sequence, and
\* each segment's text is its words' text joined by single spaces.
C3_NoWordLost ==
    /\ Len(segments) = Len(groups)
    /\ segPc # "returned" =>
          Flatten(groups) \o currentSegment = SubSeq(words, 1, pos)
    /\ segPc = "returned" => Flatten(groups) = words
    /\ \A k \in 1..Len(segments) : segments[k].text = SpacedText(groups[k])

\* a run that returned several segments, the last one made of the leftover words
C3_Witness ==
    /\ segPc = "returned"
    /\ Len(words) >= 3
    /\ Len(segments) >= 2
    /\ groups[Len(groups)] = currentSegment
    /\ Len(currentSegment) >= 2
    /\ segments[Len(segments)].text = "w w"

----------------------------------------------------------------------------
(* Properties of the streaming script                                      *)

\* the audio chunks handed to ws.send, in order
AudioCalls == SelectSeq(sendCalls, LAMBDA c : c.type = "audio")

CeilDiv(a, b) == (a + b - 1) \div b

\* C4: once the socket opens the audio is sent as chunks of chunkSize = 1600
\* samples in increasing offset order: every chunk but the last has exactly 1600
\* samples, the last has between 1 and 1600, and when the loop has ended the
\* number of chunks is ceil(length / 1600) and the chunks, concatenated, are the
\* loaded audio (every sample sent once).
C4_ChunksCoverAudio ==
    LET chunks == AudioCalls
        n == Len(chunks)
    IN  /\ \A k \in 1..n :
              /\ chunks[k].from = (k - 1) * 1600
              /\ chunks[k].to - chunks[k].from >= 1
              /\ chunks[k].to - chunks[k].from <= 1600
              /\ k < n => chunks[k].to - chunks[k].from = 1600
        /\ sendPc = "ended" =>
              /\ n = CeilDiv(audioLen, 1600)
              /\ Len(sendCalls) = n + 1
              /\ sendCalls[n + 1].type = "end"
              /\ Flatten([k \in 1..n |-> SamplesOf(chunks[k].from, chunks[k].to)])
                    = Audio

\* a finished send loop over audio of two chunks, the second one short
C4_Witness ==
    /\ sendPc = "ended"
    /\ audioLen = 2 * chunkSize - 1
    /\ Len(AudioCalls) = 2
    /\ AudioCalls[2].to - AudioCalls[2].from = chunkSize - 1

\* C5: the console shows only final transcripts: processResponse prints nothing
\* for a response whose is_final flag is not true.
C5_InterimNeverPrinted ==
    [][(/\ Len(received') = Len(received) + 1
        /\ received'[Len(received')].is_final # <<TRUE>>)
       => console' = console]_vars

\* an interim response with a transcript has been processed, then a final one
C5_Witness ==
    /\ Len(received) = 2
    /\ received[1].is_final = <<FALSE>>
    /\ received[1].transcript = <<"b">>
    /\ received[2].is_final = <<TRUE>>
    /\ console[Len(console)] = Write("a")

\* the non-empty transcripts of a sequence of responses, in order
RECURSIVE Transcripts(_)
Transcripts(rs) ==
    IF rs = <<>> THEN <<>>
    ELSE LET r == rs[Len(rs)]
             before == Transcripts(SubSeq(rs, 1, Len(rs) - 1))
         IN  IF r.transcript = <<>> \/ r.transcript = <<"">> THEN before
             ELSE Append(before, r.transcript[1])

\* the checks of main have passed and main has gone on
Validated ==
    /\ pc # "start"
    /\ hasArg /\ hasKey /\ inputExists

\* C6: all transcripts are saved to {filename}_responses.txt: the file holds, one
\* per line and in arrival order, the transcript of every response received whose
\* transcript is not empty, interim, final or last; each response is handed to
\* processResponse exactly once.
C6_AllTranscriptsSaved ==
    /\ received = messages
    /\ Validated =>
          IF Transcripts(messages) = <<>> THEN outputFile = <<>>
          ELSE outputFile = <<Transcripts(messages)>>

\* an interim and a last response, both saved, in the order they came
C6_Witness ==
    /\ Len(messages) = 2
    /\ messages[1].is_final = <<FALSE>> /\ messages[1].transcript = <<"b">>
    /\ messages[2].is_last = <<TRUE>> /\ messages[2].transcript = <<"a">>
    /\ outputFile = << <<"b", "a">> >>

----------------------------------------------------------------------------
(* Properties of the HTTP scripts                                          *)

\* the response of the run, when there is one
Responded == response # <<>> /\ ~response[1].failed

\* C7: in every HTTP script a 2xx response whose JSON status field is not
\* "success" makes the script print the error and the payload and exit with code
\* 1, and no output file is written.
C7_StatusNotSuccessFails ==
    (/\ Responded
     /\ response[1].status \in 200..299
     /\ response[1].json
     /\ response[1].result.status # <<"success">>)
    => /\ written = <<>>
       /\ pc = "exited" =>
             /\ exitCode = <<1>>
             /\ Len(console) >= 2
             /\ console[Len(console) - 1] = Err("Error: Transcription failed")
             /\ console[Len(console)] = ErrObj(response[1].result)

\* the file-transcription script has ended on a body whose status is "error"
C7_Witness ==
    /\ script = "file-transcription"
    /\ pc = "exited"
    /\ Responded
    /\ response[1].status = 200
    /\ response[1].json
    /\ response[1].result.status = <<"error">>
    /\ response[1].result.words # <<>>
    /\ exitCode = <<1>>

\* C8: in every HTTP script a non-2xx status is a failure: the error, with the
\* status code and the response body, is printed, the process exits with a
\* non-zero code, processResponse is never called and no file is written.
C8_NonOkStatusFails ==
    (Responded /\ response[1].status \notin 200..299)
    => /\ written = <<>>
       /\ prCalls = <<>>
       /\ pc = "exited" =>
             /\ exitCode # <<>>
             /\ exitCode[1] # 0
             /\ console[Len(console)] =
                   Err("Uncaught Error: API request failed with status "
                       \o ToString(response[1].status) \o ": " \o response[1].text)

\* the subtitle script has ended on a 401
C8_Witness ==
    /\ script = "subtitle"
    /\ pc = "exited"
    /\ Responded
    /\ response[1].status = 401
    /\ exitCode = <<1>>

----------------------------------------------------------------------------
(* Properties of every script                                              *)

\* C10: no script retries or reconnects: in every execution, failing ones
\* included, an HTTP script issues at most one HTTP request and the streaming
\* script opens at most one WebSocket connection.
C10_NoRetry ==
    /\ Len(requests) <= 1
    /\ connections <= 1
    /\ script = "streaming" => requests = <<>>
    /\ script \in HttpScripts => connections = 0

\* a run whose one request failed has ended
C10_Witness ==
    /\ script \in HttpScripts
    /\ pc = "exited"
    /\ exitCode = <<1>>
    /\ Len(requests) = 1
    /\ response # <<>>
    /\ response[1].failed

----------------------------------------------------------------------------
(* Properties of the checks every script makes first                       *)

\* one of the three checks of main fails
Refused == ~(hasArg /\ hasKey /\ inputExists)

\* C11: every script validates its inputs before acting: when the file argument
\* is missing, SMALLEST_API_KEY is unset or the file does not exist, the only
\* step the script takes is to exit with code 1; it issues no request, opens no
\* socket, writes no file and leaves an old responses file in place.
C11_ValidatesBeforeActing ==
    /\ [](Refused =>
            /\ requests = <<>>
            /\ connections = 0
            /\ written = <<>>
            /\ sendCalls = <<>>
            /\ pc \in {"start", "exited"}
            /\ pc = "exited" => exitCode = <<1>>)
    /\ [][Refused =>
            /\ pc' = "exited"
            /\ exitCode' = <<1>>
            /\ outputFile' = outputFile]_vars

\* the streaming script has refused a file that does not exist, and the responses
\* file of an earlier run is still there
C11_Witness ==
    /\ script = "streaming"
    /\ hasArg /\ hasKey /\ ~inputExists
    /\ pc = "exited"
    /\ exitCode = <<1>>
    /\ console = <<Err("Error: File not found: " \o InputFile)>>
    /\ outputFile = << <<"old">> >>

----------------------------------------------------------------------------
(* Properties of the streaming session as a whole                          *)

\* the number of times "Done!" was printed
DoneCount == Cardinality({k \in 1..Len(console) : console[k] = Out("Done!")})

\* C12: the one WebSocket session of the streaming script is awaited to its end:
\* "Done!" is printed at most once and only after the close event of the socket,
\* and the process exits with code 0 only when the socket is closed, "Done!" was
\* printed and the send loop has run to its end message.
C12_SessionAwaited ==
    /\ DoneCount <= 1
    /\ DoneCount = 1 => readyState = "CLOSED" /\ promise = "resolved"
    /\ exitCode = <<0>> =>
          /\ script = "streaming"
          /\ DoneCount = 1
          /\ readyState = "CLOSED"
          /\ sendPc = "ended"
          /\ sendCalls[Len(sendCalls)].type = "end"

\* the socket closed while the send loop was waiting on its timer: the loop went
\* on to its end, and only then the process exited with code 0
C12_Witness ==
    /\ exitCode = <<0>>
    /\ DoneCount = 1
    /\ audioLen = 2 * chunkSize
    /\ Len(sendCalls) = 3
    /\ sendCalls[1].open
    /\ ~sendCalls[2].open

\* the service has ended the session: it sent a response with is_last set, it
\* closed the connection, or the socket emitted an error
ServerEnded ==
    \/ \E k \in 1..Len(messages) : Truthy(messages[k].is_last)
    \/ readyState = "CLOSED"
    \/ errorEvents > 0

\* the process has ended, after "Done!" or with code 1
Terminated ==
    /\ pc = "exited"
    /\ \/ exitCode = <<1>>
       \/ exitCode = <<0>> /\ DoneCount = 1

\* C13: the streaming script runs to completion: when timers and events are
\* scheduled fairly and the service eventually sends an is_last response, closes
\* the connection or the socket errors, a run that opens the socket eventually
\* terminates, having printed "Done!" or with exit code 1.
C13_SessionTerminates == ServerEnded ~> Terminated

\* a run ended by an is_last response: the script called ws.close(), the socket
\* closed and the process ended with code 0
C13_Witness ==
    /\ pc = "exited"
    /\ exitCode = <<0>>
    /\ closeCalls = 1
    /\ Len(messages) = 1
    /\ Truthy(messages[1].is_last)
    /\ audioLen = chunkSize + 1

----------------------------------------------------------------------------
(* Properties of the subtitle files                                        *)

\* the subtitle script has ended with code 0
SubtitleRunSucceeded ==
    /\ script = "subtitle"
    /\ pc = "exited"
    /\ exitCode = <<0>>

\* the text of the first n cues, written from the left: a cue is its number,
\* the line "start --> end", the text of the segment and an empty line; srt
\* chooses the time format
RECURSIVE CueText(_, _, _)
CueText(segs, n, srt) ==
    IF n = 0 THEN ""
    ELSE LET from == IF srt THEN formatTimeSrt(segs[n].start)
                     ELSE formatTimeVtt(segs[n].start)
             to == IF srt THEN formatTimeSrt(segs[n].end)
                   ELSE formatTimeVtt(segs[n].end)
         IN  CueText(segs, n - 1, srt) \o (IF n > 1 THEN "\n" ELSE "")
                \o ToString(n) \o "\n" \o from \o " --> " \o to \o "\n"
                \o segs[n].text \o "\n"

\* C14: a successful subtitle run writes {filename}.srt and {filename}.vtt from
\* the same segment list: one cue per segment, in segment order, numbered 1..n,
\* each cue being its number, the line "start --> end", the segment text and a
\* blank line; the VTT file begins with the line WEBVTT and a blank line.
C14_SubtitleFiles ==
    SubtitleRunSucceeded =>
        LET segs == createSegments(response[1].result.words[1])
        IN  /\ Len(segs) >= 1
            /\ written =
                  <<TextFile(BaseName \o ".srt", CueText(segs, Len(segs), TRUE)),
                    TextFile(BaseName \o ".vtt",
                             "WEBVTT\n\n" \o CueText(segs, Len(segs), FALSE))>>

\* a run on three words that make two segments, and the two files in full
C14_Witness ==
    /\ SubtitleRunSucceeded
    /\ Len(written) = 2
    /\ written[1].text =
          "1\n00:00:00,000 --> 00:00:06,000\nw w\n\n2\n00:00:06,000 --> 00:00:06,250\nw\n"
    /\ written[2].text =
          "WEBVTT\n\n1\n00:00:00.000 --> 00:00:06.000\nw w\n\n2\n00:00:06.000 --> 00:00:06.250\nw\n"

----------------------------------------------------------------------------
(* Properties of the time formats                                          *)

\* n in two and in three decimal digits
TwoDigits(n) == ToString(n \div 10) \o ToString(n % 10)
ThreeDigits(n) == ToString(n \div 100) \o TwoDigits(n % 100)

\* the one HH:MM:SS<sep>mmm with MM and SS below 60 and mmm below 1000 whose
\* fields add up to ms milliseconds
TimeCode(ms, sep) ==
    TwoDigits(ms \div 3600000) \o ":" \o TwoDigits((ms \div 60000) % 60) \o ":"
        \o TwoDigits((ms \div 1000) % 60) \o sep \o ThreeDigits(ms % 1000)

\* C15: for every time of a whole number of milliseconds formatTimeSrt returns
\* HH:MM:SS,mmm and formatTimeVtt HH:MM:SS.mmm, with MM and SS in 00..59 and
\* mmm in 000..999, such that HH*3600000 + MM*60000 + SS*1000 + mmm is the
\* time in milliseconds; the two differ only in the separator.
C15_TimeCodeExact ==
    /\ srtTime # <<>> => srtTime[1] = TimeCode(seconds, ",")
    /\ vttTime # <<>> => vttTime[1] = TimeCode(seconds, ".")

----------------------------------------------------------------------------
(* Properties of the file-transcription script                             *)

\* the request succeeded: a 2xx response whose body is JSON with status "success"
RequestSucceeded ==
    /\ Responded
    /\ response[1].status \in 200..299
    /\ response[1].json
    /\ response[1].result.status = <<"success">>

\* C16: the file-transcription script writes {filename}_transcript.txt (the
\* transcription text, empty when the field is absent) and
\* {filename}_result.json (the whole response) when and only when the request
\* succeeded with status "success"; on any failure it writes neither.
C16_OutputFiles ==
    script = "file-transcription" =>
        /\ pc # "exited" => written = <<>>
        /\ pc = "exited" /\ ~RequestSucceeded => written = <<>> /\ exitCode = <<1>>
        /\ pc = "exited" /\ RequestSucceeded =>
              LET result == response[1].result
                  text == IF result.transcription = <<>> THEN ""
                          ELSE result.transcription[1]
              IN  /\ exitCode = <<0>>
                  /\ Len(written) = 2
                  /\ written[1].path = "input_transcript.txt"
                  /\ written[1].text = text
                  /\ written[1].json = <<>>
                  /\ written[2].path = "input_result.json"
                  /\ written[2].json = <<result>>

\* a successful run on a response without a transcription field: the text file
\* is written empty
C16_Witness ==
    /\ script = "file-transcription"
    /\ pc = "exited"
    /\ RequestSucceeded
    /\ response[1].result.transcription = <<>>
    /\ response[1].result.words # <<>>
    /\ Len(written) = 2
    /\ written[1].text = ""

\* C17: with its constants as shipped the file-transcription script issues its
\* request with the documented defaults: language=en, and word_timestamps,
\* diarize, age_detection, gender_detection and emotion_detection all false.
C17_DocumentedDefaults ==
    (script = "file-transcription" /\ requests # <<>>) =>
        requests[1] =
            [language |-> "en", word_timestamps |-> "false", diarize |-> "false",
             age_detection |-> "false", gender_detection |-> "false",
             emotion_detection |-> "false"]

----------------------------------------------------------------------------
(* createSegments is greedy                                                *)

\* last word end - first word start of a list of words, in milliseconds
Span(ws) == OrZero(ws[Len(ws)].end) - OrZero(ws[1].start)

\* the list holds 10 words or spans 5.0 s
MeetsThreshold(ws) ==
    Len(ws) >= WORDS_PER_SEGMENT \/ Span(ws) >= MAX_SEGMENT_DURATION

\* C18: createSegments is greedy in one pass from the left: a segment is closed
\* at the first word at which its word count reaches 10 or (last word end -
\* first word start) reaches 5.0 s; every segment but possibly the last meets
\* one of the two thresholds, and no proper prefix of a segment meets either.
C18_Greedy ==
    /\ \A k \in 1..Len(groups) :
          /\ (k < Len(groups) \/ segPc # "returned") => MeetsThreshold(groups[k])
          /\ \A j \in 1..(Len(groups[k]) - 1) :
                ~MeetsThreshold(SubSeq(groups[k], 1, j))
    /\ segPc = "loop" =>
          \A j \in 1..Len(currentSegment) :
              ~MeetsThreshold(SubSeq(currentSegment, 1, j))

----------------------------------------------------------------------------
(* Properties of the subtitle script without words                         *)

\* C19: in the subtitle script a successful response whose words list is missing
\* or empty makes the script print 'No word timestamps returned' and exit with
\* code 1 without writing the .srt or the .vtt file; createSegments is only ever
\* called with a list that is not empty.
C19_NoWordsNoSubtitles ==
    script = "subtitle" =>
        /\ (/\ pc = "exited"
            /\ RequestSucceeded
            /\ response[1].result.words \in {<<>>, << <<>> >>})
           => /\ exitCode = <<1>>
              /\ console[Len(console)] =
                    Err("Error: No word timestamps returned. Cannot generate subtitles.")
              /\ written = <<>>
              /\ segPc = "none"
        /\ segPc # "none" => Len(words) >= 1 /\ segPc = "returned"

\* a run on a successful response with an empty words list, with a transcription
C19_Witness ==
    /\ script = "subtitle"
    /\ pc = "exited"
    /\ RequestSucceeded
    /\ response[1].result.words = << <<>> >>
    /\ response[1].result.transcription = <<"hello world">>
    /\ exitCode = <<1>>

----------------------------------------------------------------------------
(* Properties of the pace of the send loop                                 *)

\* the positions of the timeline where ws.send was called
SendPositions == {k \in 1..Len(timeline) : timeline[k].ev = "send"}

\* C20: the send loop is paced by a fixed interval: after each chunk it sets a
\* timer of 100 ms and waits for it, so between two sends (chunks, or the last
\* chunk and the end message) a 100 ms timer was set and expired; every call
\* of ws.send is one of the loop's.
C20_PacedByTimer ==
    /\ Cardinality(SendPositions) = Len(sendCalls)
    /\ \A k \in 1..Len(timeline) :
          timeline[k].ev = "setTimeout" => timeline[k].ms = 100
    /\ \A k, l \in SendPositions :
          k < l => \E m, n \in (k + 1)..(l - 1) :
                      /\ m < n
                      /\ timeline[m] = SetTimeoutEvent(100)
                      /\ timeline[n].ev = "timeout"
    /\ sendPc = "timer" =>
          /\ Len(timeline) >= 2
          /\ timeline[Len(timeline)] = SetTimeoutEvent(100)
          /\ timeline[Len(timeline) - 1].ev = "send"

\* the loop over audio of two chunks has ended: three sends and, between them,
\* two timers set and expired
C20_Witness ==
    /\ sendPc = "ended"
    /\ Len(AudioCalls) = 2
    /\ Len(timeline) = 7
    /\ timeline[2] = SetTimeoutEvent(100)
    /\ timeline[3].ev = "timeout"
    /\ timeline[7].ev = "send"

----------------------------------------------------------------------------
(* Properties of the end message                                           *)

\* the positions of sendCalls where the end message was handed to ws.send
EndPositions == {k \in 1..Len(sendCalls) : sendCalls[k].type = "end"}

\* C21: the end message is sent once per session, after the last audio chunk and
\* never before or between chunks: ws.send is given at most one end message, it
\* is the last call of all, every chunk of the audio precedes it, and it is given
\* exactly when the send loop has run to its end; for empty audio the open
\* handler's only call is the end message.
C21_EndMessageOnce ==
    /\ Cardinality(EndPositions) <= 1
    /\ EndPositions \subseteq {Len(sendCalls)}
    /\ (sendPc = "ended") = (EndPositions # {})
    /\ EndPositions # {} =>
          /\ Len(AudioCalls) = CeilDiv(audioLen, chunkSize)
          /\ Len(sendCalls) = Len(AudioCalls) + 1
    /\ audioLen = 0 /\ sendPc # "idle" =>
          /\ Len(sendCalls) = 1
          /\ sendCalls[1].type = "end"

\* a finished send loop over audio of two full chunks: chunk, chunk, end
C21_Witness ==
    /\ sendPc = "ended"
    /\ audioLen = 2 * chunkSize
    /\ Len(sendCalls) = 3
    /\ sendCalls[1].type = "audio"
    /\ sendCalls[2].type = "audio"
    /\ sendCalls[3].type = "end"

----------------------------------------------------------------------------
(* Properties of the send loop and the responses                           *)

\* every chunk of the audio and the end message were handed to an open socket
AllSentOpen ==
    /\ sendPc = "ended"
    /\ Len(sendCalls) = CeilDiv(audioLen, chunkSize) + 1
    /\ \A k \in 1..Len(sendCalls) : sendCalls[k].open

\* C22: the send loop has no backpressure. Its progress depends only on the
\* timer: a step that hands a response to processResponse leaves the loop where
\* it is, a step of the loop receives nothing, and while the socket stays open
\* the loop reaches the end message with every chunk sent, whatever the server
\* sends or does not send. A response is processed in the step that delivers
\* it, also while the loop is waiting on its timer.
C22_NoBackpressure ==
    /\ [][received' # received => UNCHANGED <<i, sendPc, sendCalls, timeline>>]_vars
    /\ [][sendCalls' # sendCalls => UNCHANGED <<messages, received>>]_vars
    /\ [][messages' # messages =>
             received' = Append(received, messages'[Len(messages')])]_vars
    /\ (readyState = "OPEN") ~> (readyState # "OPEN" \/ AllSentOpen)

\* a final response was printed after the first of two chunks was sent and
\* before the second: the loop is waiting on its timer
C22_Witness ==
    /\ readyState = "OPEN"
    /\ audioLen = 2 * chunkSize
    /\ sendPc = "timer"
    /\ Len(sendCalls) = 1
    /\ Len(received) = 1
    /\ received[1].is_final = <<TRUE>>
    /\ console[Len(console)] = Write("a")

----------------------------------------------------------------------------
(* Properties of closing the socket                                        *)

\* the responses with is_last true among rs
LastResponses(rs) == SelectSeq(rs, LAMBDA r : r.is_last = <<TRUE>>)

\* C23: the client calls ws.close() exactly when it processes a response with
\* is_last true, in the step that has passed that response to processResponse,
\* and at no other moment: not after the end message, not on is_final.
C23_ClosesOnLastOnly ==
    /\ [][(closeCalls' # closeCalls)
            <=> (/\ Len(received') = Len(received) + 1
                 /\ received'[Len(received')].is_last = <<TRUE>>)]_vars
    /\ [][closeCalls' # closeCalls =>
             /\ closeCalls' = closeCalls + 1
             /\ readyState' = "CLOSING"
             /\ UNCHANGED <<sendCalls, timeline>>]_vars
    /\ [](closeCalls = Len(LastResponses(received)))

\* the end message was sent and a final response processed, neither closing the
\* socket; then a response with is_last closed it
C23_Witness ==
    /\ sendPc = "ended"
    /\ Len(received) = 2
    /\ received[1].is_final = <<TRUE>> /\ received[1].is_last = <<>>
    /\ received[2].is_last = <<TRUE>>
    /\ sendCalls[Len(sendCalls)].open
    /\ closeCalls = 1
    /\ readyState = "CLOSING"

----------------------------------------------------------------------------
(* Properties of what the streaming script prints                          *)

\* "=".repeat(60) and "-".repeat(60), written out
DoubleRule == "============================================================"
SingleRule == "------------------------------------------------------------"

\* the end-of-session block of the response whose transcript is "a" and that
\* carries every section
FullBlock ==
    <<Out("[FINAL] a"),
      Out("\n" \o DoubleRule), Out("FULL TRANSCRIPT"), Out(DoubleRule), Out("a b"),
      Out("\n" \o SingleRule), Out("LANGUAGE"), Out(SingleRule),
      Out("Detected: en"), Out("All: [\"en\"]"),
      Out("\n" \o SingleRule), Out("UTTERANCES"), Out(SingleRule),
      Out("[0.00s - 0.25s] speaker_0: a"),
      Out("\n" \o SingleRule), Out("WORD TIMESTAMPS"), Out(SingleRule),
      Out("[0.00s - 0.25s] a (0.90)"),
      Out("\n" \o SingleRule), Out("REDACTED ENTITIES"), Out(SingleRule),
      Out("  [NAME_1]"),
      Out("\n" \o DoubleRule)>>

\* C24: processResponse prints the end-of-session block (the [FINAL] line, the
\* sections the response carries, the closing rule) only for a response with
\* both is_final and is_last true; for a response with is_final true and is_last
\* not true it writes the transcript text and nothing else; for a response whose
\* is_final is not true it prints nothing, also when is_last is true, and that
\* response still closes the socket.
C24_PrintedBlocks ==
    [][Len(received') = Len(received) + 1 =>
          LET r == received'[Len(received')]
              printed == SubSeq(console', Len(console) + 1, Len(console'))
          IN  /\ SubSeq(console', 1, Len(console)) = console
              /\ IF r.is_final = <<TRUE>> /\ r.is_last = <<TRUE>>
                 THEN IF r.full_transcript # <<>>
                      THEN printed = FullBlock
                      ELSE printed = <<Out("[FINAL] "), Out("\n" \o DoubleRule)>>
                 ELSE IF r.is_final = <<TRUE>>
                 THEN printed = <<Write(OrEmpty(r.transcript))>>
                 ELSE /\ printed = <<>>
                      /\ r.is_last = <<TRUE>> => readyState' = "CLOSING"]_vars

\* two responses with every section: after the banner the console shows "a",
\* written for the final one, and then the block of the final and last one
C24_Witness ==
    /\ Len(received) = 2
    /\ received[1].is_final = <<TRUE>> /\ received[1].is_last = <<>>
    /\ received[1].transcript = <<"a">>
    /\ received[2].is_final = <<TRUE>> /\ received[2].is_last = <<TRUE>>
    /\ received[2].words # <<>>
    /\ Len(console) = 27
    /\ console[4] = Write("a")
    /\ SubSeq(console, 5, 27) = FullBlock

----------------------------------------------------------------------------
(* Properties of the send loop after ws.close()                            *)

\* C25: once the client has called ws.close() in response to an is_last
\* response it sends nothing more on the socket: after the close call no audio
\* chunk and no end message is handed to ws.send, in any interleaving of the
\* send loop with the responses.
C25_NothingSentAfterClose ==
    [][closeCalls > 0 => sendCalls' = sendCalls]_vars

----------------------------------------------------------------------------
(* Properties of a close the server causes                                 *)

\* C26: a close of the socket without an error event before it is a success,
\* whatever was received: the close event makes main print the rule and "Done!",
\* and from then on the process has no exit code or the exit code 0, also when
\* no response with is_last has come and the client has never called ws.close().
C26_CloseIsSuccess ==
    /\ [][readyState # "CLOSED" /\ readyState' = "CLOSED" =>
             /\ errorEvents = 0
             /\ promise' = "resolved"
             /\ console' = console \o <<Out(SingleRule), Out("Done!")>>
             /\ exitCode' = <<>>]_vars
    /\ [](promise = "resolved" =>
             /\ exitCode \in {<<>>, <<0>>}
             /\ \A k \in 1..Len(console) : console[k].stream # "err")

\* the server closed the socket after one interim response and before the loop
\* had sent its second chunk; the script printed "Done!" and ended with code 0
C26_Witness ==
    /\ closeCalls = 0
    /\ Len(received) = 1
    /\ received[1].is_last = <<FALSE>>
    /\ readyState = "CLOSED"
    /\ \E k \in 1..Len(sendCalls) : ~sendCalls[k].open
    /\ console[Len(console)] = Out("Done!")
    /\ exitCode = <<0>>

----------------------------------------------------------------------------
(* Properties of the responses file across runs                            *)

\* the lines of the responses file
FileLines ==
    IF outputFile = <<>> THEN {}
    ELSE {outputFile[1][k] : k \in 1..Len(outputFile[1])}

\* C27: the responses file never mixes runs: the step of main that passes the
\* validation removes a file left by an earlier run, before the WebSocket is
\* constructed, and from then on the file does not exist or every line of it is
\* the transcript of a response received in this run, also when the run fails.
C27_FileOfThisRunOnly ==
    /\ [][pc = "start" /\ pc' # "start" /\ ~Refused =>
             outputFile' = <<>> /\ connections' = 0]_vars
    /\ [](connections > 0 \/ Validated =>
             FileLines \subseteq
                {OrEmpty(received[k].transcript) : k \in 1..Len(received)})

\* a run that received an interim transcript and then failed on an error event:
\* the file holds that transcript and nothing else
C27_Witness ==
    /\ errorEvents = 1
    /\ exitCode = <<1>>
    /\ Len(received) = 1
    /\ received[1].transcript = <<"b">>
    /\ outputFile = << <<"b">> >>

----------------------------------------------------------------------------
(* Properties of the times of the segments                                 *)

\* the words are in time order: start <= end <= the next word's start, a
\* missing time counting as 0
InTimeOrder(ws) ==
    \A k \in 1..Len(ws) :
        /\ OrZero(ws[k].start) <= OrZero(ws[k].end)
        /\ k < Len(ws) => OrZero(ws[k].end) <= OrZero(ws[k + 1].start)

\* C28: each segment's start is its first word's start and its end is its last
\* word's end, 0 when the field is missing; hence, when the input words are in
\* time order, the segments are in time order and do not overlap: start <= end
\* in every segment and segment k's end <= segment k+1's start.
C28_SegmentsInTimeOrder ==
    /\ Len(groups) = Len(segments)
    /\ \A k \in 1..Len(segments) :
          /\ segments[k].start = OrZero(groups[k][1].start)
          /\ segments[k].end = OrZero(groups[k][Len(groups[k])].end)
    /\ InTimeOrder(words) =>
          \A k \in 1..Len(segments) :
              /\ segments[k].start <= segments[k].end
              /\ k < Len(segments) => segments[k].end <= segments[k + 1].start

\* eleven quarter-second words returned as two segments that touch at 2.5 s
C28_Witness ==
    /\ segPc = "returned"
    /\ Len(words) = 11
    /\ InTimeOrder(words)
    /\ Len(segments) = 2
    /\ segments[1].start = 0
    /\ segments[1].end = 2500
    /\ segments[2].start = 2500
    /\ segments[2].end = 2750

----------------------------------------------------------------------------
(* Properties of loadAudio                                                 *)

\* C29: loadAudio resamples by nearest-lower index: when the file's sample rate
\* r differs from 16000 the result has floor(n * 16000 / r) samples and output
\* sample i is input sample floor(i * r / 16000), an index within 0..n-1 that
\* does not decrease with i; when r is 16000 the samples are returned unchanged.
C29_NearestLowerIndex ==
    resolved # <<>> =>
        LET out == resolved[1]
            n == samplesLength
            r == sampleRate
            index(i0) == (i0 * r) \div 16000
        IN  IF r = 16000
            THEN out = [j \in 1..n |-> Sample(j - 1)]
            ELSE /\ Len(out) = (n * 16000) \div r
                 /\ \A j \in 1..Len(out) :
                       /\ index(j - 1) \in 0..(n - 1)
                       /\ out[j] = Sample(index(j - 1))
                       /\ j > 1 => index(j - 2) <= index(j - 1)

====
